---- MODULE Spec2Model ----
(***************************************************************************)
(* OpenNeuro MCP server (src/src/index.ts): the openneuro_graphql_query    *)
(* tool, the GraphQL relay executeOpenNeuroGraphQLQuery and the worker's   *)
(* HTTP fetch handler.                                                     *)
(*                                                                         *)
(* JavaScript strings and HTTP bodies are sequences of one-character       *)
(* strings.  JSON values are tagged records; an object is the sequence of  *)
(* its own properties in insertion order.  JSON.parse and JSON.stringify   *)
(* are computed character by character.  Numbers are integers: fractions,  *)
(* exponents and the escapes \b \f \uXXXX lie outside the modelled         *)
(* alphabet, and so do literals beyond the range of a double.              *)
(***************************************************************************)
EXTENDS Integers, Sequences, FiniteSets, TLC

(***************************************************************************)
(* The string literals of the source and of JSON                           *)
(***************************************************************************)
S_true == <<"t", "r", "u", "e">>
S_false == <<"f", "a", "l", "s", "e">>
S_null == <<"n", "u", "l", "l">>
S_undefined == <<"u", "n", "d", "e", "f", "i", "n", "e", "d">>
S_query == <<"q", "u", "e", "r", "y">>
S_variables == <<"v", "a", "r", "i", "a", "b", "l", "e", "s">>
S_data == <<"d", "a", "t", "a">>
S_errors == <<"e", "r", "r", "o", "r", "s">>
S_message == <<"m", "e", "s", "s", "a", "g", "e">>
S_extensions == <<"e", "x", "t", "e", "n", "s", "i", "o", "n", "s">>
S_statusCode == <<"s", "t", "a", "t", "u", "s", "C", "o", "d", "e">>
S_responseText == <<"r", "e", "s", "p", "o", "n", "s", "e", "T", "e", "x", "t">>
S_responseBody == <<"r", "e", "s", "p", "o", "n", "s", "e", "B", "o", "d", "y">>
S_clientError == <<"c", "l", "i", "e", "n", "t", "E", "r", "r", "o", "r">>
S_sse == <<"/", "s", "s", "e">>
S_sseSlash == <<"/", "s", "s", "e", "/">>

(***************************************************************************)
(* JavaScript values                                                       *)
(***************************************************************************)
Undefined == [t |-> "undefined"]
JNull == [t |-> "null"]
JBool(b) == [t |-> "bool", v |-> b]
JNum(n) == [t |-> "num", v |-> n]
JStr(s) == [t |-> "str", v |-> s]
JArr(items) == [t |-> "arr", v |-> items]
JObj(props) == [t |-> "obj", v |-> props]
Prop(key, val) == [k |-> key, v |-> val]

IsObject(x) == x.t = "obj"
IsArray(x) == x.t = "arr"
HasKey(o, key) == \E n \in 1..Len(o.v) : o.v[n].k = key
Get(o, key) == o.v[CHOOSE n \in 1..Len(o.v) : o.v[n].k = key].v
Keys(o) == [n \in 1..Len(o.v) |-> o.v[n].k]

\* obj[key] = val: an existing own property keeps its place, a new one is added last
ObjPut(props, key, val) ==
    IF \E n \in 1..Len(props) : props[n].k = key
    THEN [n \in 1..Len(props) |-> IF props[n].k = key THEN Prop(key, val) ELSE props[n]]
    ELSE Append(props, Prop(key, val))

\* ToBoolean, as `if (variables)` applies it
Truthy(x) ==
    CASE x.t = "undefined" -> FALSE
      [] x.t = "null" -> FALSE
      [] x.t = "bool" -> x.v
      [] x.t = "num" -> x.v # 0
      [] x.t = "str" -> x.v # <<>>
      [] OTHER -> TRUE

Min(a, b) == IF a < b THEN a ELSE b

\* String.prototype.slice(from, to) for 0 <= from <= to
Slice(s, from, to) == SubSeq(s, from + 1, Min(to, Len(s)))

DIGITS == <<"0", "1", "2", "3", "4", "5", "6", "7", "8", "9">>
IsDigit(c) == \E d \in 1..10 : DIGITS[d] = c
DigitVal(c) == (CHOOSE d \in 1..10 : DIGITS[d] = c) - 1

RECURSIVE NatToString(_)
NatToString(n) ==
    IF n < 10 THEN <<DIGITS[n + 1]>>
    ELSE Append(NatToString(n \div 10), DIGITS[(n % 10) + 1])

\* Number.prototype.toString for an integer, as a template literal and String() apply it
NumberToString(n) == IF n < 0 THEN <<"-">> \o NatToString(0 - n) ELSE NatToString(n)

(***************************************************************************)
(* JSON.stringify(value, null, gap)                                        *)
(***************************************************************************)
\* the characters QuoteJSONString writes as a two-character escape, and its second character
IsEscaped(c) == c \in {"\"", "\\", "\n", "\t", "\r"}
EscapeLetter(c) ==
    CASE c = "\n" -> "n"
      [] c = "\t" -> "t"
      [] c = "\r" -> "r"
      [] OTHER -> c

IsChar(c) == c # ""

\* two places for every character of s, the second one empty unless it is escaped
QuoteJSONString(s) ==
    LET places == [p \in 1..(2 * Len(s)) |->
                      LET c == s[(p + 1) \div 2]
                      IN  IF p % 2 = 1 THEN (IF IsEscaped(c) THEN "\\" ELSE c)
                          ELSE (IF IsEscaped(c) THEN EscapeLetter(c) ELSE "")]
    IN  <<"\"">> \o SelectSeq(places, IsChar) \o <<"\"">>

Spaces(n) == [k \in 1..n |-> " "]

RECURSIVE SerializeJSONProperty(_, _, _)
RECURSIVE SerializeJSONArray(_, _, _, _)
RECURSIVE SerializeJSONObject(_, _, _, _)

\* the elements (properties) from the n-th on, each after its separator
SerializeJSONArray(items, n, indent, gap) ==
    IF n > Len(items) THEN <<>>
    ELSE (IF n > 1 THEN <<",">> ELSE <<>>)
         \o (IF gap > 0 THEN <<"\n">> \o Spaces(indent + gap) ELSE <<>>)
         \o SerializeJSONProperty(items[n], indent + gap, gap)
         \o SerializeJSONArray(items, n + 1, indent, gap)

SerializeJSONObject(props, n, indent, gap) ==
    IF n > Len(props) THEN <<>>
    ELSE (IF n > 1 THEN <<",">> ELSE <<>>)
         \o (IF gap > 0 THEN <<"\n">> \o Spaces(indent + gap) ELSE <<>>)
         \o QuoteJSONString(props[n].k) \o <<":">>
         \o (IF gap > 0 THEN <<" ">> ELSE <<>>)
         \o SerializeJSONProperty(props[n].v, indent + gap, gap)
         \o SerializeJSONObject(props, n + 1, indent, gap)

SerializeJSONProperty(x, indent, gap) ==
    CASE x.t = "null" -> S_null
      [] x.t = "bool" -> IF x.v THEN S_true ELSE S_false
      [] x.t = "num" -> NumberToString(x.v)
      [] x.t = "str" -> QuoteJSONString(x.v)
      [] x.t = "arr" ->
           IF x.v = <<>> THEN <<"[", "]">>
           ELSE <<"[">> \o SerializeJSONArray(x.v, 1, indent, gap)
                \o (IF gap > 0 THEN <<"\n">> \o Spaces(indent) ELSE <<>>) \o <<"]">>
      [] x.t = "obj" ->
           IF x.v = <<>> THEN <<"{", "}">>
           ELSE <<"{">> \o SerializeJSONObject(x.v, 1, indent, gap)
                \o (IF gap > 0 THEN <<"\n">> \o Spaces(indent) ELSE <<>>) \o <<"}">>

JSONStringify(x, gap) == SerializeJSONProperty(x, 0, gap)

(***************************************************************************)
(* JSON.parse(text)                                                        *)
(***************************************************************************)
ParseFail == [ok |-> FALSE, val |-> JNull, next |-> 0]
ParseOk(x, n) == [ok |-> TRUE, val |-> x, next |-> n]

IsWhitespace(c) == c \in {" ", "\n", "\t", "\r"}

\* the first position from n on that holds no whitespace
SkipWhitespace(s, n) ==
    IF \A m \in n..Len(s) : IsWhitespace(s[m]) THEN Len(s) + 1
    ELSE CHOOSE m \in n..Len(s) :
             ~IsWhitespace(s[m]) /\ \A k \in n..(m - 1) : IsWhitespace(s[k])

MatchAt(s, n, lit) ==
    /\ n + Len(lit) - 1 <= Len(s)
    /\ \A k \in 1..Len(lit) : s[n + k - 1] = lit[k]

\* how many backslashes stand right before position m, counted back to position lo
BackslashRun(s, m, lo) ==
    CHOOSE k \in 0..(m - lo) :
        /\ \A j \in (m - k)..(m - 1) : s[j] = "\\"
        /\ k = m - lo \/ s[m - k - 1] # "\\"

UnescapeLetter(c) ==
    CASE c = "n" -> "\n"
      [] c = "t" -> "\t"
      [] c = "r" -> "\r"
      [] OTHER -> c

\* the characters of a string literal after its opening quote: up to the first quote
\* that no backslash escapes, every escape replaced by the character it stands for
ParseStringChars(s, n) ==
    LET closing == {m \in n..Len(s) : s[m] = "\"" /\ BackslashRun(s, m, n) % 2 = 0}
    IN  IF closing = {} THEN ParseFail
        ELSE LET close == CHOOSE m \in closing : \A k \in closing : m <= k
                 escaped(p) == BackslashRun(s, p, n) % 2 = 1
                 valid(p) ==
                     IF escaped(p) THEN s[p] \in {"\"", "\\", "/", "n", "t", "r"}
                     ELSE s[p] \notin {"\n", "\t", "\r"}
                 places == [q \in 1..(close - n) |->
                               LET p == n + q - 1
                               IN  IF escaped(p) THEN UnescapeLetter(s[p])
                                   ELSE IF s[p] = "\\" THEN "" ELSE s[p]]
             IN  IF \A p \in n..(close - 1) : valid(p)
                 THEN ParseOk(JStr(SelectSeq(places, IsChar)), close + 1)
                 ELSE ParseFail

RECURSIVE ParseDigits(_, _, _)
ParseDigits(s, n, acc) ==
    IF n <= Len(s) /\ IsDigit(s[n]) THEN ParseDigits(s, n + 1, acc * 10 + DigitVal(s[n]))
    ELSE [val |-> acc, next |-> n]

\* int: "0", or a digit 1-9 and more digits; a minus sign may come first
ParseNumber(s, n) ==
    LET neg == s[n] = "-"
        m == IF neg THEN n + 1 ELSE n
    IN  IF m > Len(s) \/ ~IsDigit(s[m]) THEN ParseFail
        ELSE IF s[m] = "0" THEN ParseOk(JNum(0), m + 1)
        ELSE LET d == ParseDigits(s, m, 0)
             IN  ParseOk(JNum(IF neg THEN 0 - d.val ELSE d.val), d.next)

RECURSIVE ParseValue(_, _)
RECURSIVE ParseElements(_, _, _)
RECURSIVE ParseMembers(_, _, _)

\* the elements of an array, n at the first character of an element
ParseElements(s, n, acc) ==
    LET e == ParseValue(s, n)
        m == SkipWhitespace(s, e.next)
    IN  IF ~e.ok \/ m > Len(s) THEN ParseFail
        ELSE IF s[m] = "]" THEN ParseOk(JArr(Append(acc, e.val)), m + 1)
        ELSE IF s[m] = "," THEN ParseElements(s, SkipWhitespace(s, m + 1), Append(acc, e.val))
        ELSE ParseFail

\* the members of an object, n at the opening quote of a name
ParseMembers(s, n, acc) ==
    IF n > Len(s) \/ s[n] # "\"" THEN ParseFail
    ELSE LET key == ParseStringChars(s, n + 1)
             c == SkipWhitespace(s, key.next)
         IN  IF ~key.ok \/ c > Len(s) \/ s[c] # ":" THEN ParseFail
             ELSE LET e == ParseValue(s, SkipWhitespace(s, c + 1))
                      m == SkipWhitespace(s, e.next)
                      props == ObjPut(acc, key.val.v, e.val)
                  IN  IF ~e.ok \/ m > Len(s) THEN ParseFail
                      ELSE IF s[m] = "}" THEN ParseOk(JObj(props), m + 1)
                      ELSE IF s[m] = "," THEN ParseMembers(s, SkipWhitespace(s, m + 1), props)
                      ELSE ParseFail

ParseValue(s, n) ==
    IF n > Len(s) THEN ParseFail
    ELSE IF s[n] = "{" THEN
        LET m == SkipWhitespace(s, n + 1)
        IN  IF m <= Len(s) /\ s[m] = "}" THEN ParseOk(JObj(<<>>), m + 1)
            ELSE ParseMembers(s, m, <<>>)
    ELSE IF s[n] = "[" THEN
        LET m == SkipWhitespace(s, n + 1)
        IN  IF m <= Len(s) /\ s[m] = "]" THEN ParseOk(JArr(<<>>), m + 1)
            ELSE ParseElements(s, m, <<>>)
    ELSE IF s[n] = "\"" THEN ParseStringChars(s, n + 1)
    ELSE IF s[n] = "-" \/ IsDigit(s[n]) THEN ParseNumber(s, n)
    ELSE IF MatchAt(s, n, S_true) THEN ParseOk(JBool(TRUE), n + 4)
    ELSE IF MatchAt(s, n, S_false) THEN ParseOk(JBool(FALSE), n + 5)
    ELSE IF MatchAt(s, n, S_null) THEN ParseOk(JNull, n + 4)
    ELSE ParseFail

\* JSON.parse: one value between optional whitespace, or a SyntaxError (ok = FALSE)
JSONParse(s) ==
    LET e == ParseValue(s, SkipWhitespace(s, 1))
    IN  IF e.ok /\ SkipWhitespace(s, e.next) = Len(s) + 1 THEN e ELSE ParseFail

(***************************************************************************)
(* Bounds and input domains                                                *)
(***************************************************************************)
\* tool invocations that may be in flight together
NumInvocations == 2
\* requests the worker's fetch handler serves in one behaviour
MaxHttpRequests == 2

Invocations == 1..NumInvocations

Error(msg) == [t |-> "error", message |-> msg]

Q_Dataset == <<"{", " ", "d", "a", "t", "a", "s", "e", "t", "(", "i", "d", ":", " ", "\"", "d",
               "s", "0", "0", "0", "2", "2", "4", "\"", ")", " ", "{", " ", "i", "d", " ", "n",
               "a", "m", "e", " ", "}", " ", "}">>
Q_Schema == <<"{", " ", "_", "_", "s", "c", "h", "e", "m", "a", " ", "{", " ", "q", "u", "e", "r",
              "y", "T", "y", "p", "e", " ", "{", " ", "n", "a", "m", "e", " ", "}", " ", "}", " ",
              "}">>
Q_Multiline == <<"q", "u", "e", "r", "y", " ", "Q", "(", "$", "i", "d", ":", " ", "I", "D", "!",
                 ")", " ", "{", "\n", "\t", "d", "a", "t", "a", "s", "e", "t", "(", "i", "d", ":",
                 " ", "$", "i", "d", ")", " ", "{", " ", "n", "a", "m", "e", " ", "}", "\n", "}",
                 "\\">>
Queries == {Q_Dataset, Q_Schema, Q_Multiline}

V_Empty == JObj(<<>>)
V_DatasetId == JObj(<<Prop(<<"d", "a", "t", "a", "s", "e", "t", "I", "d">>, JStr(<<"d", "s", "0",
                                                                                   "0", "0", "2",
                                                                                   "2", "4">>))>>)
V_Nested ==
    JObj(<<Prop(<<"n">>, JNum(0)),
           Prop(<<"o">>, JObj(<<Prop(<<"b">>, JBool(FALSE)),
                             Prop(<<"l">>, JArr(<<JNull, JStr(<<"a", "\"", "b">>)>>))>>))>>)
\* z.record(z.any()).optional(): undefined, or an object
Variables == {Undefined, V_Empty, V_DatasetId, V_Nested}

\* what a rejected fetch may carry: an Error, or any other thrown value
E_Refused == Error(<<"c", "o", "n", "n", "e", "c", "t", " ", "E", "C", "O", "N", "N", "R", "E",
                     "F", "U", "S", "E", "D">>)
E_NoMessage == Error(<<>>)
E_String == JStr(<<"t", "i", "m", "e", "o", "u", "t">>)
Errors == {E_Refused, E_NoMessage, E_String, JStr(<<>>), JNum(503), Undefined, JNull}

B_Data == <<"{", "\"", "d", "a", "t", "a", "\"", ":", "{", "\"", "d", "a", "t", "a", "s", "e",
            "t", "\"", ":", "{", "\"", "i", "d", "\"", ":", "\"", "d", "s", "0", "0", "0", "2",
            "2", "4", "\"", "}", "}", "}">>
B_GraphQLErrors == <<"{", "\"", "e", "r", "r", "o", "r", "s", "\"", ":", "[", "{", "\"", "m", "e",
                     "s", "s", "a", "g", "e", "\"", ":", "\"", "C", "a", "n", "n", "o", "t", " ",
                     "q", "u", "e", "r", "y", " ", "f", "i", "e", "l", "d", " ", "\\", "\"", "f",
                     "o", "o", "\\", "\"", "\"", ",", "\"", "l", "o", "c", "a", "t", "i", "o",
                     "n", "s", "\"", ":", "[", "{", "\"", "l", "i", "n", "e", "\"", ":", "1", ",",
                     "\"", "c", "o", "l", "u", "m", "n", "\"", ":", "3", "}", "]", "}", "]", ",",
                     "\"", "d", "a", "t", "a", "\"", ":", "n", "u", "l", "l", "}">>
B_Internal == <<"{", "\"", "m", "e", "s", "s", "a", "g", "e", "\"", ":", "\"", "i", "n", "t", "e",
                "r", "n", "a", "l", "\"", "}">>
B_Spaced == <<" ", "{", "\n", " ", " ", "\"", "d", "a", "t", "a", "\"", " ", ":", " ", "{", " ",
              "\"", "n", "\"", " ", ":", " ", "-", "1", "2", " ", ",", " ", "\"", "o", "k", "\"",
              " ", ":", " ", "t", "r", "u", "e", " ", "}", "\n", "}", "\n">>
B_EmptyObject == <<"{", "}">>
B_Array == <<"[", "{", "\"", "i", "d", "\"", ":", "1", "}", "]">>
B_EmptyArray == <<"[", "]">>
B_Null == S_null
B_Number == <<"7">>
B_String == <<"\"", "o", "k", "\"">>
B_Html == <<"<", "h", "t", "m", "l", ">", "E", "r", "r", "o", "r", "<", "/", "h", "t", "m", "l",
            ">">>
B_Truncated == <<"{", "\"", "d", "a", "t", "a", "\"", ":">>
B_Empty == <<>>
JsonBodies ==
    {B_Data, B_GraphQLErrors, B_Internal, B_Spaced, B_EmptyObject, B_Array, B_EmptyArray,
     B_Null, B_Number, B_String}
NonJsonBodies == {B_Html, B_Truncated, B_Empty}
Bodies == JsonBodies \union NonJsonBodies

\* a response with a null body status carries no body; every other one carries a
\* body stream, which delivers its text or fails while it is read
NullBodyStatuses == {204}
BodyStatuses == {200, 404, 500}
Response(status, hasBody, text, readFails) ==
    [status |-> status, hasBody |-> hasBody, text |-> text, readFails |-> readFails]
Responses ==
    {Response(s, FALSE, <<>>, FALSE) : s \in NullBodyStatuses}
    \union {Response(s, TRUE, b, FALSE) : s \in BodyStatuses, b \in Bodies}
    \union {Response(s, TRUE, B_Data, TRUE) : s \in BodyStatuses}

SmallQueries == {Q_Dataset}
SmallVariables == {Undefined, V_DatasetId}
SmallErrors == {E_Refused}
SmallResponses ==
    {Response(200, TRUE, B_Data, FALSE), Response(500, TRUE, B_Internal, FALSE),
     Response(200, TRUE, B_Html, FALSE)}

U_Sse == <<"h", "t", "t", "p", "s", ":", "/", "/", "m", "c", "p", ".", "e", "x", "a", "m", "p",
           "l", "e", "/", "s", "s", "e">>
U_SseSlash == <<"h", "t", "t", "p", "s", ":", "/", "/", "m", "c", "p", ".", "e", "x", "a", "m",
                "p", "l", "e", "/", "s", "s", "e", "/">>
U_SseMessage == <<"h", "t", "t", "p", "s", ":", "/", "/", "m", "c", "p", ".", "e", "x", "a", "m",
                  "p", "l", "e", "/", "s", "s", "e", "/", "m", "e", "s", "s", "a", "g", "e", "?",
                  "s", "e", "s", "s", "i", "o", "n", "I", "d", "=", "1">>
U_SseQuery == <<"h", "t", "t", "p", "s", ":", "/", "/", "m", "c", "p", ".", "e", "x", "a", "m",
                "p", "l", "e", "/", "s", "s", "e", "?", "x", "=", "/", "y">>
U_SseFoo == <<"h", "t", "t", "p", "s", ":", "/", "/", "m", "c", "p", ".", "e", "x", "a", "m", "p",
              "l", "e", "/", "s", "s", "e", "f", "o", "o">>
U_Root == <<"h", "t", "t", "p", "s", ":", "/", "/", "m", "c", "p", ".", "e", "x", "a", "m", "p",
            "l", "e", "/">>
U_NoPath == <<"h", "t", "t", "p", "s", ":", "/", "/", "m", "c", "p", ".", "e", "x", "a", "m", "p",
              "l", "e">>
U_Fragment == <<"h", "t", "t", "p", "s", ":", "/", "/", "m", "c", "p", ".", "e", "x", "a", "m",
                "p", "l", "e", "/", "m", "c", "p", "#", "/", "s", "s", "e", "/">>
U_Nested == <<"h", "t", "t", "p", "s", ":", "/", "/", "m", "c", "p", ".", "e", "x", "a", "m", "p",
              "l", "e", "/", "a", "p", "i", "/", "s", "s", "e">>
U_UpperCase == <<"h", "t", "t", "p", "s", ":", "/", "/", "m", "c", "p", ".", "e", "x", "a", "m",
                 "p", "l", "e", "/", "S", "S", "E">>
U_Short == <<"h", "t", "t", "p", "s", ":", "/", "/", "m", "c", "p", ".", "e", "x", "a", "m", "p",
             "l", "e", "/", "s", "s">>
Urls ==
    {U_Sse, U_SseSlash, U_SseMessage, U_SseQuery, U_SseFoo, U_Root, U_NoPath, U_Fragment,
     U_Nested, U_UpperCase, U_Short}

(***************************************************************************)
(* class OpenNeuroMCP                                                      *)
(***************************************************************************)
OPENNEURO_GRAPHQL_ENDPOINT == "https://openneuro.org/crn/graphql"
TOOL_NAME == "openneuro_graphql_query"
RESPONSE_TEXT_LIMIT == 1000

\* agent         the fields of the OpenNeuroMCP instance (index.ts:7-15, tools as of init())
\* inv           per tool call, the frame of the handler and of the relay (index.ts:40-133):
\*               where it is suspended, its arguments, what fetch settled with, whether
\*               the response body was read, and what the relay and the handler completed with
\* posts         the requests fetch has sent (index.ts:76-80), in order
\* httpLog       what default.fetch answered to each request (index.ts:151-172)
\* sseForwarded  how many requests default.fetch gave to OpenNeuroMCP.serveSSE (index.ts:159)
VARIABLES agent, inv, posts, httpLog, sseForwarded
vars == <<agent, inv, posts, httpLog, sseForwarded>>

Return(x) == [kind |-> "return", value |-> x]
Throw(e) == [kind |-> "throw", value |-> e]
Pending == [kind |-> "pending"]

\* String(error)
JsString(x) ==
    CASE x.t = "str" -> x.v
      [] x.t = "num" -> NumberToString(x.v)
      [] x.t = "bool" -> IF x.v THEN S_true ELSE S_false
      [] x.t = "null" -> S_null
      [] x.t = "undefined" -> S_undefined

\* faulty variant: an empty mapping counts as no variables
BodyDataNonEmpty(query, variables) ==
    LET props == <<Prop(S_query, JStr(query))>>
    IN  JObj(IF Truthy(variables) /\ variables.v # <<>>
             THEN ObjPut(props, S_variables, variables) ELSE props)

\* const bodyData = { query }; if (variables) bodyData.variables = variables
BodyData(query, variables) ==
    LET props == <<Prop(S_query, JStr(query))>>
    IN  JObj(IF Truthy(variables) THEN ObjPut(props, S_variables, variables) ELSE props)

RequestHeaders ==
    [ContentType |-> "application/json",
     UserAgent |-> "MCPOpenNeuroServer/0.1.0 (ModelContextProtocol; +https://modelcontextprotocol.io)"]

\* the arguments of the one fetch call
RequestInit(query, variables) ==
    [url |-> OPENNEURO_GRAPHQL_ENDPOINT, method |-> "POST", headers |-> RequestHeaders,
     body |-> JSONStringify(BodyData(query, variables), 0)]

\* faulty variant: the request is sent a second time
FetchTwice(log, i, request) ==
    LET sent == [inv |-> i, url |-> request.url, method |-> request.method,
                 headers |-> request.headers, body |-> request.body]
    IN  Append(Append(log, sent), sent)

\* fetch(...): the request leaves on behalf of invocation i
Fetch(log, i, request) ==
    Append(log, [inv |-> i, url |-> request.url, method |-> request.method,
                 headers |-> request.headers, body |-> request.body])

\* faulty variant: only a server error counts as a failure
ResponseOkBelow500(status) == status >= 200 /\ status < 500

\* response.ok
ResponseOk(status) == status >= 200 /\ status <= 299

SyntaxError == Error(<<"U", "n", "e", "x", "p", "e", "c", "t", "e", "d", " ", "t", "o", "k", "e",
                       "n">>)
NetworkError == Error(<<"N", "e", "t", "w", "o", "r", "k", " ", "c", "o", "n", "n", "e", "c", "t",
                        "i", "o", "n", " ", "l", "o", "s", "t", ".">>)
BodyUsedError ==
    Error(<<"B", "o", "d", "y", " ", "h", "a", "s", " ", "a", "l", "r", "e", "a", "d", "y", " ",
            "b", "e", "e", "n", " ", "u", "s", "e", "d", ".", " ", "I", "t", " ", "c", "a", "n",
            " ", "o", "n", "l", "y", " ", "b", "e", " ", "u", "s", "e", "d", " ", "o", "n", "c",
            "e", ".", " ", "U", "s", "e", " ", "t", "e", "e", "(", ")", " ", "f", "i", "r", "s",
            "t", " ", "i", "f", " ", "y", "o", "u", " ", "n", "e", "e", "d", " ", "t", "o", " ",
            "r", "e", "a", "d", " ", "i", "t", " ", "t", "w", "i", "c", "e", ".">>)

Resolve(x, used) == [kind |-> "resolve", value |-> x, bodyUsed |-> used]
Reject(e, used) == [kind |-> "reject", value |-> e, bodyUsed |-> used]

\* response.json(): a body can be read once; a null body reads as the empty text
ResponseJson(response, bodyUsed) ==
    IF ~response.hasBody THEN Reject(SyntaxError, FALSE)
    ELSE IF bodyUsed THEN Reject(BodyUsedError, TRUE)
    ELSE IF response.readFails THEN Reject(NetworkError, TRUE)
    ELSE LET p == JSONParse(response.text)
         IN  IF p.ok THEN Resolve(p.val, TRUE) ELSE Reject(SyntaxError, TRUE)

\* response.text()
ResponseText(response, bodyUsed) ==
    IF ~response.hasBody THEN Resolve(<<>>, FALSE)
    ELSE IF bodyUsed THEN Reject(BodyUsedError, TRUE)
    ELSE IF response.readFails THEN Reject(NetworkError, TRUE)
    ELSE Resolve(response.text, TRUE)

ErrorEnvelope(message, extensions) ==
    JObj(<<Prop(S_errors,
                JArr(<<JObj(<<Prop(S_message, JStr(message)),
                              Prop(S_extensions, JObj(extensions))>>)>>))>>)

M_ApiError == <<"O", "p", "e", "n", "N", "e", "u", "r", "o", " ", "A", "P", "I", " ", "E", "r",
                "r", "o", "r", " ">>
M_NonJson == <<":", " ", "N", "o", "n", "-", "J", "S", "O", "N", " ", "r", "e", "s", "p", "o",
               "n", "s", "e", ".">>
M_HttpError == <<"O", "p", "e", "n", "N", "e", "u", "r", "o", " ", "A", "P", "I", " ", "H", "T",
                 "T", "P", " ", "E", "r", "r", "o", "r", " ">>

\* the inner catch's return value
NonJsonEnvelope(status, errorText) ==
    ErrorEnvelope(M_ApiError \o NumberToString(status) \o M_NonJson,
                  <<Prop(S_statusCode, JNum(status)),
                    Prop(S_responseText, JStr(Slice(errorText, 0, RESPONSE_TEXT_LIMIT)))>>)

HttpErrorEnvelope(status, responseBody) ==
    ErrorEnvelope(M_HttpError \o NumberToString(status),
                  <<Prop(S_statusCode, JNum(status)), Prop(S_responseBody, responseBody)>>)

\* faulty variant: a body that carries GraphQL errors is wrapped like an HTTP error
AfterJsonReclassify(status, responseBody) ==
    IF ~ResponseOk(status) \/ (IsObject(responseBody) /\ HasKey(responseBody, S_errors))
    THEN HttpErrorEnvelope(status, responseBody) ELSE responseBody

\* after the body parsed: if (!response.ok) return the envelope; return responseBody
AfterJson(status, responseBody) ==
    IF ~ResponseOk(status) THEN HttpErrorEnvelope(status, responseBody) ELSE responseBody

\* errorMessage of the outer catch: its initial text is overwritten on both branches
ErrorMessage(error) == IF error.t = "error" THEN error.message ELSE JsString(error)

ClientErrorEnvelope(error) ==
    ErrorEnvelope(ErrorMessage(error), <<Prop(S_clientError, JBool(TRUE))>>)

\* faulty variant: the catch rethrows
OuterCatchRethrow(error) == Throw(error)

\* catch (error) { ... return {errors: ...} } around the whole of the relay
OuterCatch(error) == Return(ClientErrorEnvelope(error))

\* the tool's result: one text item holding the pretty-printed QueryResult
ToolResult(result) == [content |-> <<[type |-> "text", text |-> JSONStringify(result, 2)]>>]

\* const result = await this.executeOpenNeuroGraphQLQuery(...); return {content}
HandlerCompletion(relay) ==
    IF relay.kind = "throw" THEN relay ELSE Return(ToolResult(relay.value))

\* executeOpenNeuroGraphQLQuery from the settling of fetch on, as one function of it
ExecuteOpenNeuroGraphQLQuery(fetched) ==
    IF fetched.kind = "reject" THEN OuterCatch(fetched.error)
    ELSE LET response == fetched.response
             json == ResponseJson(response, FALSE)
             text == ResponseText(response, json.bodyUsed)
         IN  IF json.kind = "resolve" THEN Return(AfterJson(response.status, json.value))
             ELSE IF text.kind = "reject" THEN OuterCatch(text.value)
             ELSE Return(NonJsonEnvelope(response.status, text.value))

NotFetched == [kind |-> "none"]
Idle ==
    [pc |-> "idle", query |-> <<>>, variables |-> Undefined, req |-> 0, fetched |-> NotFetched,
     bodyUsed |-> FALSE, relay |-> Pending, completion |-> Pending]

\* faulty variant: the response is kept in a field of the agent, which the latest request to be
\* answered overwrites
ResponseShared(i) ==
    inv[CHOOSE j \in Invocations :
            /\ inv[j].fetched.kind = "response"
            /\ \A k \in Invocations :
                  inv[k].fetched.kind = "response" => inv[k].req <= inv[j].req].fetched

\* the `response` the continuation of invocation i holds
ResponseOf(i) == inv[i].fetched

Init ==
    /\ agent = [endpoint |-> OPENNEURO_GRAPHQL_ENDPOINT, tools |-> {TOOL_NAME}]
    /\ inv = [i \in Invocations |-> Idle]
    /\ posts = <<>>
    /\ httpLog = <<>>
    /\ sseForwarded = 0

\* the relay settles and the handler returns (or throws) to the MCP server
Settle(i, relay, used) ==
    inv' = [inv EXCEPT ![i].pc = "done", ![i].bodyUsed = used, ![i].relay = relay,
                       ![i].completion = HandlerCompletion(relay)]

\* the tool is called: the handler and the relay run up to `await fetch(...)`
Invoke(i, Q, V) ==
    /\ inv[i].pc = "idle"
    /\ \E query \in Q, variables \in V :
          /\ posts' = Fetch(posts, i, RequestInit(query, variables))
          /\ inv' = [inv EXCEPT ![i].pc = "fetch", ![i].query = query,
                                ![i].variables = variables, ![i].req = Len(posts')]
    /\ UNCHANGED <<agent, httpLog, sseForwarded>>

\* fetch rejects: the outer catch
FetchReject(i, E) ==
    /\ inv[i].pc = "fetch"
    /\ \E error \in E :
          inv' = [inv EXCEPT ![i].pc = "done", ![i].fetched = [kind |-> "reject", error |-> error],
                             ![i].relay = OuterCatch(error),
                             ![i].completion = HandlerCompletion(OuterCatch(error))]
    /\ UNCHANGED <<agent, posts, httpLog, sseForwarded>>

\* fetch resolves with the response to this invocation's request: response.json() is awaited
FetchResolve(i, R) ==
    /\ inv[i].pc = "fetch"
    /\ \E response \in R :
          inv' = [inv EXCEPT ![i].pc = "json",
                             ![i].fetched = [kind |-> "response", req |-> inv[i].req,
                                             response |-> response]]
    /\ UNCHANGED <<agent, posts, httpLog, sseForwarded>>

\* response.json() settles: the inner catch awaits response.text(), or the relay returns
JsonSettle(i) ==
    /\ inv[i].pc = "json"
    /\ LET response == ResponseOf(i).response
           json == ResponseJson(response, inv[i].bodyUsed)
       IN  IF json.kind = "reject"
           THEN inv' = [inv EXCEPT ![i].pc = "text", ![i].bodyUsed = json.bodyUsed]
           ELSE Settle(i, Return(AfterJson(response.status, json.value)), json.bodyUsed)
    /\ UNCHANGED <<agent, posts, httpLog, sseForwarded>>

\* response.text() settles inside the inner catch: a rejection reaches the outer catch
TextSettle(i) ==
    /\ inv[i].pc = "text"
    /\ LET response == ResponseOf(i).response
           text == ResponseText(response, inv[i].bodyUsed)
       IN  IF text.kind = "reject"
           THEN Settle(i, OuterCatch(text.value), text.bodyUsed)
           ELSE Settle(i, Return(NonJsonEnvelope(response.status, text.value)), text.bodyUsed)
    /\ UNCHANGED <<agent, posts, httpLog, sseForwarded>>

(***************************************************************************)
(* export default { fetch }                                                *)
(***************************************************************************)
\* the first position >= n where lit occurs in s, or 0
IndexOf(s, lit, n) ==
    LET found == {m \in n..Len(s) : MatchAt(s, m, lit)}
    IN  IF found = {} THEN 0 ELSE CHOOSE m \in found : \A k \in found : m <= k

\* where the path that starts at n ends: before "?" or "#", or at the end of the URL
PathEnd(s, n) ==
    LET marks == {m \in n..Len(s) : s[m] \in {"?", "#"}}
    IN  IF marks = {} THEN Len(s) ELSE (CHOOSE m \in marks : \A k \in marks : m <= k) - 1

\* new URL(request.url).pathname for scheme://host/path?query#fragment
UrlPathname(url) ==
    LET host == IndexOf(url, <<":", "/", "/">>, 1) + 3
        hostEnd == PathEnd(url, host)
        slash == IndexOf(url, <<"/">>, host)
    IN  IF slash = 0 \/ slash > hostEnd THEN <<"/">>
        ELSE SubSeq(url, slash, PathEnd(url, slash))

\* String.prototype.startsWith
StartsWith(s, prefix) == MatchAt(s, 1, prefix)

NOT_FOUND_BODY ==
    <<"O", "p", "e", "n", "N", "e", "u", "r", "o", " ", "M", "C", "P", " ", "S", "e", "r", "v",
      "e", "r", " ", "-", " ", "P", "a", "t", "h", " ", "n", "o", "t", " ", "f", "o", "u", "n",
      "d", ".", "\n", "A", "v", "a", "i", "l", "a", "b", "l", "e", " ", "M", "C", "P", " ", "p",
      "a", "t", "h", "s", ":", "\n", "-", " ", "/", "s", "s", "e", " ", "(", "f", "o", "r", " ",
      "S", "e", "r", "v", "e", "r", "-", "S", "e", "n", "t", " ", "E", "v", "e", "n", "t", "s",
      " ", "t", "r", "a", "n", "s", "p", "o", "r", "t", ")">>

\* faulty variant: any path that begins with the characters /sse
IsSsePathPrefix(pathname) == StartsWith(pathname, S_sse)

\* pathname === "/sse" || pathname.startsWith("/sse/")
IsSsePath(pathname) == pathname = S_sse \/ StartsWith(pathname, S_sseSlash)

\* the handler's answer: the request goes to OpenNeuroMCP.serveSSE("/sse"), or 404
Route(url) ==
    LET pathname == UrlPathname(url)
    IN  IF IsSsePath(pathname)
        THEN [url |-> url, handledBy |-> "serveSSE"]
        ELSE [url |-> url, handledBy |-> "fallback", status |-> 404,
              contentType |-> "text/plain", body |-> NOT_FOUND_BODY]

HttpFetch(U) ==
    /\ Len(httpLog) < MaxHttpRequests
    /\ \E url \in U :
          /\ httpLog' = Append(httpLog, Route(url))
          /\ sseForwarded' = IF Route(url).handledBy = "serveSSE"
                             THEN sseForwarded + 1 ELSE sseForwarded
    /\ UNCHANGED <<agent, inv, posts>>

(***************************************************************************)
(* Specifications                                                          *)
(***************************************************************************)
\* tool invocations in flight together, their awaits settling in any order
Next ==
    \E i \in Invocations :
        \/ Invoke(i, SmallQueries, SmallVariables)
        \/ FetchReject(i, SmallErrors)
        \/ FetchResolve(i, SmallResponses)
        \/ JsonSettle(i)
        \/ TextSettle(i)

Spec == Init /\ [][Next]_vars

\* one invocation of the relay over every query, variables value and outcome
NextRelay ==
    \/ Invoke(1, Queries, Variables)
    \/ FetchReject(1, Errors)
    \/ FetchResolve(1, Responses)
    \/ JsonSettle(1)
    \/ TextSettle(1)

SpecRelay == Init /\ [][NextRelay]_vars

\* the worker's fetch handler beside one tool invocation
NextHttp ==
    \/ HttpFetch(Urls)
    \/ Invoke(1, SmallQueries, SmallVariables)
    \/ FetchReject(1, SmallErrors)
    \/ FetchResolve(1, SmallResponses)
    \/ JsonSettle(1)
    \/ TextSettle(1)

SpecHttp == Init /\ [][NextHttp]_vars

(***************************************************************************)
(* Properties                                                              *)
(***************************************************************************)
Done(i) == inv[i].pc = "done"
Started(i) == inv[i].pc # "idle"
Rejected(i) == inv[i].fetched.kind = "reject"
Responded(i) == inv[i].fetched.kind = "response"
Remote(i) == inv[i].fetched.response
PostsOf(i) == {n \in 1..Len(posts) : posts[n].inv = i}
Output(i) == inv[i].completion.value.content

\* the remote answered and its body, read to the end, is JSON
JsonBody(i) ==
    Responded(i) /\ Remote(i).hasBody /\ ~Remote(i).readFails /\ JSONParse(Remote(i).text).ok
\* the remote answered and its body, read to the end (empty when there is none), is not JSON
NonJsonBody(i) ==
    Responded(i) /\ ~Remote(i).readFails /\ ~JSONParse(Remote(i).text).ok
Success(i) == JsonBody(i) /\ Remote(i).status \in 200..299

IsErrorEnvelope(x) ==
    IsObject(x) /\ HasKey(x, S_errors) /\ IsArray(Get(x, S_errors))
    /\ Get(x, S_errors).v # <<>>

\* C1: every invocation that has started has issued exactly one POST, to
\* https://openneuro.org/crn/graphql, whatever became of it; one that has not started
\* has issued none; and the response an invocation consumed answers its own request.
C1_ExactlyOnePost ==
    /\ Len(posts) = Cardinality({i \in Invocations : Started(i)})
    /\ \A i \in Invocations :
          /\ Cardinality(PostsOf(i)) = IF Started(i) THEN 1 ELSE 0
          /\ \A n \in PostsOf(i) :
                posts[n].url = "https://openneuro.org/crn/graphql" /\ posts[n].method = "POST"
          /\ Started(i) => inv[i].req \in PostsOf(i)
          /\ Responded(i) => inv[i].fetched.req = inv[i].req

\* one invocation ended by a transport failure, another by a response that was not JSON
C1_Witness ==
    \E i, j \in Invocations :
        /\ Done(i) /\ Rejected(i)
        /\ Done(j) /\ NonJsonBody(j)
        /\ Len(posts) = 2

\* C2: when the remote answers, with any status, and the body is not JSON, the relay
\* returns the non-JSON envelope: message "OpenNeuro API Error <status>: Non-JSON
\* response.", extensions.statusCode the status, extensions.responseText the first 1000
\* characters of the body; not the transport-failure envelope.
C2_NonJsonEnvelope ==
    \A i \in Invocations :
        Done(i) /\ NonJsonBody(i) =>
            inv[i].relay =
                Return(JObj(<<Prop(S_errors, JArr(<<JObj(<<
                    Prop(S_message,
                         JStr(<<"O", "p", "e", "n", "N", "e", "u", "r", "o", " ", "A", "P", "I",
                                " ", "E", "r", "r", "o", "r", " ">>
                              \o NumberToString(Remote(i).status)
                              \o <<":", " ", "N", "o", "n", "-", "J", "S", "O", "N", " ", "r",
                                   "e", "s", "p", "o", "n", "s", "e", ".">>)),
                    Prop(S_extensions, JObj(<<
                        Prop(S_statusCode, JNum(Remote(i).status)),
                        Prop(S_responseText,
                             JStr(SubSeq(Remote(i).text, 1, Min(1000, Len(Remote(i).text)))))
                    >>))>>)>>))>>))

\* C3: no invocation throws: the relay resolves with a value, the handler returns a
\* content result, and every failure comes back as an error envelope.
C3_NeverThrows ==
    \A i \in Invocations :
        /\ inv[i].relay.kind # "throw"
        /\ inv[i].completion.kind # "throw"
        /\ Done(i) =>
              /\ inv[i].relay.kind = "return"
              /\ inv[i].completion.kind = "return"
              /\ Len(Output(i)) = 1
              /\ ~Success(i) => IsErrorEnvelope(inv[i].relay.value)

\* the body was not JSON, response.text() rejected in the inner catch, and the call returned
C3_Witness ==
    /\ Done(1) /\ Responded(1) /\ Remote(1).hasBody /\ Remote(1).text = B_Html
    /\ inv[1].bodyUsed
    /\ inv[1].completion.kind = "return"

C5_HttpErrorEnvelope ==
    \A i \in Invocations :
        Done(i) /\ JsonBody(i) /\ Remote(i).status \notin 200..299 =>
            /\ inv[i].relay =
                  Return(JObj(<<Prop(S_errors, JArr(<<JObj(<<
                      Prop(S_message,
                           JStr(CASE Remote(i).status = 404 -> <<"O", "p", "e", "n", "N", "e",
                                                                 "u", "r", "o", " ", "A", "P",
                                                                 "I", " ", "H", "T", "T", "P",
                                                                 " ", "E", "r", "r", "o", "r",
                                                                 " ", "4", "0", "4">>
                                  [] Remote(i).status = 500 -> <<"O", "p", "e", "n", "N", "e",
                                                                 "u", "r", "o", " ", "A", "P",
                                                                 "I", " ", "H", "T", "T", "P",
                                                                 " ", "E", "r", "r", "o", "r",
                                                                 " ", "5", "0", "0">>)),
                      Prop(S_extensions, JObj(<<
                          Prop(S_statusCode, JNum(Remote(i).status)),
                          Prop(S_responseBody, JSONParse(Remote(i).text).val)>>))>>)>>))>>))
            /\ inv[i].relay.value # JSONParse(Remote(i).text).val

\* the 500 with body {"message":"internal"}
C5_Witness ==
    /\ Done(1) /\ JsonBody(1) /\ Remote(1).status = 500 /\ Remote(1).text = B_Internal
    /\ IsErrorEnvelope(inv[1].relay.value)

\* C6: when fetch rejects, the relay returns exactly {errors: [{message, extensions:
\* {clientError: true}}]} with a non-empty message, whatever was thrown.
C6_TransportFailureEnvelope ==
    \A i \in Invocations :
        Done(i) /\ Rejected(i) =>
            LET message == Get(Get(inv[i].relay.value, S_errors).v[1], S_message)
            IN  /\ message.t = "str" /\ message.v # <<>>
                /\ inv[i].relay =
                      Return(JObj(<<Prop(S_errors, JArr(<<JObj(<<
                          Prop(S_message, message),
                          Prop(S_extensions, JObj(<<Prop(S_clientError, JBool(TRUE))>>))
                      >>)>>))>>))

\* C7: the POST body is the JSON encoding of {query}, the query unchanged, with a
\* variables key exactly when the caller supplied variables (an empty mapping included),
\* holding them unchanged; when they are omitted there is no such key.
C7_RequestBody ==
    \A i \in Invocations :
        Started(i) =>
            LET body == posts[inv[i].req].body
                sent == JSONParse(body)
                supplied == inv[i].variables # Undefined
            IN  /\ sent.ok /\ IsObject(sent.val)
                /\ Keys(sent.val) = IF supplied THEN <<S_query, S_variables>>
                                    ELSE <<S_query>>
                /\ Get(sent.val, S_query) = JStr(inv[i].query)
                /\ supplied => Get(sent.val, S_variables) = inv[i].variables
                /\ body = JSONStringify(
                       JObj(<<Prop(S_query, JStr(inv[i].query))>>
                            \o IF supplied THEN <<Prop(S_variables, inv[i].variables)>>
                               ELSE <<>>), 0)

\* the caller supplied an empty mapping and the body carries "variables":{}
C7_Witness ==
    /\ Started(1) /\ inv[1].variables = JObj(<<>>) /\ inv[1].query = Q_Multiline
    /\ HasKey(JSONParse(posts[inv[1].req].body).val, S_variables)

\* C8: the tool's output is one text item whose text parses to a JSON object, and the
\* object carries an errors array whenever the call was not a success.
C8_AlwaysJsonObject ==
    \A i \in Invocations :
        Done(i) =>
            /\ inv[i].completion.kind = "return"
            /\ Len(Output(i)) = 1
            /\ Output(i)[1].type = "text"
            /\ JSONParse(Output(i)[1].text).ok
            /\ IsObject(JSONParse(Output(i)[1].text).val)
            /\ ~Success(i) => IsErrorEnvelope(JSONParse(Output(i)[1].text).val)

\* the URLs of the domain whose path is /sse or lies under /sse/
SseUrls ==
    {U_Sse, U_SseSlash, U_SseMessage, U_SseQuery}

\* C9: a request whose path is /sse or under /sse/ goes to the SSE handler and never
\* gets the fallback; every other request gets 404, text/plain, a body that mentions
\* /sse, no MCP session and no outbound call.
C9_Routing ==
    /\ \A n \in 1..Len(httpLog) :
          /\ httpLog[n].url \in SseUrls <=> httpLog[n].handledBy = "serveSSE"
          /\ httpLog[n].url \notin SseUrls =>
                /\ httpLog[n].handledBy = "fallback"
                /\ httpLog[n].status = 404
                /\ httpLog[n].contentType = "text/plain"
                /\ IndexOf(httpLog[n].body, S_sse, 1) > 0
    /\ sseForwarded = Cardinality({n \in 1..Len(httpLog) : httpLog[n].url \in SseUrls})
    /\ Len(posts) = Cardinality({i \in Invocations : Started(i)})

\* /ssefoo answered 404 and /sse/message handed to the SSE handler
C9_Witness ==
    /\ Len(httpLog) = 2
    /\ httpLog[1].url = U_SseFoo /\ httpLog[1].handledBy = "fallback"
    /\ httpLog[2].url = U_SseMessage
    /\ httpLog[2].handledBy = "serveSSE"
    /\ sseForwarded = 1

\* C10: under any interleaving an invocation's request and result are those the relay
\* computes from its own query, variables and the answer to its own request; invocations
\* with the same inputs and answer end alike; the agent's state never changes.
C10_Independent ==
    /\ agent = [endpoint |-> "https://openneuro.org/crn/graphql",
                tools |-> {"openneuro_graphql_query"}]
    /\ \A i \in Invocations :
          /\ Started(i) =>
                posts[inv[i].req].body = RequestInit(inv[i].query, inv[i].variables).body
          /\ Done(i) =>
                /\ inv[i].relay = ExecuteOpenNeuroGraphQLQuery(inv[i].fetched)
                /\ inv[i].completion = HandlerCompletion(inv[i].relay)
    /\ \A i, j \in Invocations :
          /\ Done(i) /\ Done(j)
          /\ inv[i].query = inv[j].query /\ inv[i].variables = inv[j].variables
          /\ \/ (Rejected(i) /\ Rejected(j) /\ inv[i].fetched.error = inv[j].fetched.error)
             \/ (Responded(i) /\ Responded(j) /\ Remote(i) = Remote(j))
          => inv[i].completion = inv[j].completion

\* invocation 2 started first and still awaits its body; invocation 1, started later
\* with another answer, is done
C10_Witness ==
    /\ Done(1) /\ Responded(1)
    /\ inv[2].pc \in {"json", "text"}
    /\ inv[2].req < inv[1].req
    /\ Remote(1) # Remote(2)

====
